---- MODULE Spec2Model ----
(***************************************************************************)
(* Event extractor: the FastAPI backend (react-version/backend/main.py)    *)
(* and the Streamlit demo shell (streamlit-version/app.py).                *)
(*                                                                         *)
(* A behaviour is one run of one of the two programs (variable program).   *)
(* The backend is a process that imports main.py (Startup) and then serves *)
(* GET / and concurrent POST /api/extract-event requests; the handler      *)
(* extract_event is split at the points where another thread can run.      *)
(* The shell runs extract_event_info synchronously on each button click.   *)
(* The external completion service is the operation client.responses.parse *)
(* and replies with a parsed CalendarEvent, with no parsed value, or by    *)
(* raising.  The environment variable OPENAI_API_KEY can be changed from   *)
(* outside the program at any time.                                        *)
(***************************************************************************)
EXTENDS Integers, Sequences, FiniteSets, TLC

\* ---------------------------------------------------------------- bounds
MaxRequests == 2
MaxClicks == 2
MaxParticipants == 2

Req == 1..MaxRequests

\* ------------------------------------------------------- values and inputs
\* os.getenv returns None when the variable is not set
None == "None"
EnvValues == {None, "", "sk-1"}
Texts == {"Alice and Bob are going to a science fair on Friday.", "hello"}
\* the body {text: ...} of the i-th POST: consecutive requests differ
RequestText(i) == IF i % 2 = 1 THEN "Alice and Bob are going to a science fair on Friday." ELSE "hello"
Names == {"Alice", "Bob"}
ParticipantLists == UNION {[1..n -> Names] : n \in 0..MaxParticipants}
Failures == {"Rate limit exceeded", "Request timed out."}

\* class CalendarEvent(BaseModel)
CalendarEvent == [name : {"science fair"}, date : {"Friday"}, participants : ParticipantLists]
\* response.output_parsed is None when the service produced no conforming value
NoEvent == [none : {TRUE}]
NoneEvent == [none |-> TRUE]
\* what client.responses.parse can do: return a response or raise
Replies == [kind : {"response"}, output_parsed : CalendarEvent \cup NoEvent]
             \cup [kind : {"raise"}, desc : Failures]
NoReply == [kind |-> "none"]
NoCall == [sent |-> FALSE]

\* ------------------------------------------------------------- messages
KeyMissingDetail == "OpenAI API key not configured. Set OPENAI_API_KEY environment variable."
FailedPrefix == "Failed to extract event information: "
LogPrefix == "Error extracting event: "
\* str(e) of pydantic's ValidationError for EventResponse(event=None)
ValidationErrorMsg == "1 validation error for EventResponse"
\* str(e) of the AttributeError raised by None.model_dump()
AttributeErrorMsg == "'NoneType' object has no attribute 'model_dump'"
\* str(e) of the OpenAIError raised by OpenAI(api_key=None) when the variable is not set
OpenAIErrorMsg == "The api_key client option must be set"

VARIABLES program, env,
          proc, clientKey, rootAsked, rootResponse,
          pc, text, keyChecked, call, calls, reply, event, response, logged,
          clicks, shText, shKey, shCall, shCalls, shReply, shOutcome, shLogged, shDisplayed

httpVars == <<proc, clientKey, rootAsked, rootResponse,
              pc, text, keyChecked, call, calls, reply, event, response, logged>>
shellVars == <<clicks, shText, shKey, shCall, shCalls, shReply, shOutcome, shLogged, shDisplayed>>
vars == <<program, env, httpVars, shellVars>>

\* ------------------------------------------------------- pure operations
\* `not os.getenv("OPENAI_API_KEY")`: None and the empty string are falsy
KeyNotConfigured(k) == k = None \/ k = ""

\* read_root's return value
Descriptor == [message |-> "Event Extractor API", version |-> "1.0.0",
               endpoints |-> [post |-> "Extract event information from text"]]
NoRootResponse == [status |-> 0]
ReadRootResponse == [status |-> 200, body |-> Descriptor]
\* a request sent to a process that is not listening
Unreachable == [status |-> -1]

\* FastAPI's answer to a raised HTTPException(status_code, detail)
HTTPException(status, detail) == [status |-> status, body |-> [detail |-> detail]]

\* OpenAI(api_key=os.getenv("OPENAI_API_KEY")): the constructor raises
\* OpenAIError when the key is None, and accepts any string
OpenAIAccepts(k) == k # None

\* keeps the first occurrence of every participant
RECURSIVE Dedup(_)
Dedup(s) ==
  IF s = <<>> THEN <<>>
  ELSE LET init == Dedup(SubSeq(s, 1, Len(s) - 1))
           last == s[Len(s)]
       IN IF \E j \in 1..Len(init) : init[j] = last THEN init ELSE Append(init, last)
DumpEventDedup(e) ==
  IF e = NoneEvent THEN NoneEvent
  ELSE [name |-> e.name, date |-> e.date, participants |-> Dedup(e.participants)]
\* a CalendarEvent written field by field, as model_dump and the JSON
\* serialisation do; None is written as it is
DumpEvent(e) ==
  IF e = NoneEvent THEN NoneEvent
  ELSE [name |-> e.name, date |-> e.date,
        participants |-> [j \in 1..Len(e.participants) |-> e.participants[j]]]

\* EventResponse(success=True, event=event): pydantic rejects an event that
\* is not a CalendarEvent
EventResponseValidOptional(e) == TRUE
EventResponseValid(e) == e \in CalendarEvent
\* the response_model serialisation of a valid EventResponse
EventResponse(e) == [status |-> 200, body |-> [success |-> TRUE, event |-> DumpEvent(e)]]

\* event.model_dump()
ModelDump(e) == DumpEvent(e)

\* the slot that holds a request's local variable `event`
EventSlotShared(i) == 1
EventSlot(i) == i

\* where the handler goes after the except branch: it raises, and is over
PcAfterRaiseRetry == "call"
PcAfterRaise == "done"

NoResponse == [status |-> 0]

\* ---------------------------------------------------------------- Init
Init ==
  /\ program \in {"http", "shell"}
  /\ env \in EnvValues
  /\ proc = "notstarted"
  /\ clientKey = None
  /\ rootAsked = FALSE
  /\ rootResponse = NoRootResponse
  /\ pc = [i \in Req |-> "idle"]
  /\ text = [i \in Req |-> ""]
  /\ keyChecked = [i \in Req |-> None]
  /\ call = [i \in Req |-> NoCall]
  /\ calls = [i \in Req |-> 0]
  /\ reply = [i \in Req |-> NoReply]
  /\ event = [i \in Req |-> NoneEvent]
  /\ response = [i \in Req |-> NoResponse]
  /\ logged = [i \in Req |-> <<>>]
  /\ clicks = 0
  /\ shText = ""
  /\ shKey = None
  /\ shCall = NoCall
  /\ shCalls = 0
  /\ shReply = NoReply
  /\ shOutcome = [kind |-> "none"]
  /\ shLogged = <<>>
  /\ shDisplayed = [kind |-> "none"]

\* ------------------------------------------------------- the environment
\* OPENAI_API_KEY is set, changed or removed from outside the program
EnvChange ==
  /\ \E v \in EnvValues \ {env} : env' = v
  /\ UNCHANGED <<program, httpVars, shellVars>>

\* ------------------------------------------------------- the backend
\* import of main.py: client = OpenAI(api_key=os.getenv("OPENAI_API_KEY"))
Startup ==
  /\ program = "http"
  /\ proc = "notstarted"
  /\ IF OpenAIAccepts(env)
       THEN proc' = "running" /\ clientKey' = env
       ELSE proc' = "crashed" /\ UNCHANGED clientKey
  /\ UNCHANGED <<program, env, rootAsked, rootResponse,
                 pc, text, keyChecked, call, calls, reply, event, response, logged, shellVars>>

\* GET /
ReadRoot ==
  /\ program = "http"
  /\ proc # "notstarted"
  /\ rootAsked' = TRUE
  /\ rootResponse' = IF proc = "running" THEN ReadRootResponse ELSE Unreachable
  /\ UNCHANGED <<program, env, proc, clientKey,
                 pc, text, keyChecked, call, calls, reply, event, response, logged, shellVars>>

\* POST /api/extract-event arrives with body {text: RequestText(i)}
Receive(i) ==
  /\ program = "http"
  /\ proc = "running"
  /\ pc[i] = "idle"
  /\ \A j \in Req : j < i => pc[j] # "idle"
  /\ pc' = [pc EXCEPT ![i] = "check"]
  /\ text' = [text EXCEPT ![i] = RequestText(i)]
  /\ UNCHANGED <<program, env, proc, clientKey, rootAsked, rootResponse,
                 keyChecked, call, calls, reply, event, response, logged, shellVars>>

\* if not os.getenv("OPENAI_API_KEY"): raise HTTPException(500, ...)
CheckKey(i) ==
  /\ pc[i] = "check"
  /\ keyChecked' = [keyChecked EXCEPT ![i] = env]
  /\ IF KeyNotConfigured(env)
       THEN /\ response' = [response EXCEPT ![i] = HTTPException(500, KeyMissingDetail)]
            /\ pc' = [pc EXCEPT ![i] = "done"]
       ELSE /\ pc' = [pc EXCEPT ![i] = "call"]
            /\ UNCHANGED response
  /\ UNCHANGED <<program, env, proc, clientKey, rootAsked, rootResponse,
                 text, call, calls, reply, event, logged, shellVars>>

\* the credential the module-level client carries
CallKeyEnv == env
CallKey == clientKey

\* client.responses.parse(...) is entered: the request leaves
CallService(i) ==
  /\ pc[i] = "call"
  /\ call' = [call EXCEPT ![i] = [sent |-> TRUE, api_key |-> CallKey, input |-> text[i]]]
  /\ calls' = [calls EXCEPT ![i] = calls[i] + 1]
  /\ pc' = [pc EXCEPT ![i] = "waiting"]
  /\ UNCHANGED <<program, env, proc, clientKey, rootAsked, rootResponse,
                 text, keyChecked, reply, event, response, logged, shellVars>>

\* client.responses.parse(...) returns or raises; event = response.output_parsed
ServiceReply(i, r) ==
  /\ pc[i] = "waiting"
  /\ reply' = [reply EXCEPT ![i] = r]
  /\ IF r.kind = "raise"
       THEN /\ logged' = [logged EXCEPT ![i] = Append(logged[i], LogPrefix \o r.desc)]
            /\ response' = [response EXCEPT ![i] = HTTPException(500, FailedPrefix \o r.desc)]
            /\ pc' = [pc EXCEPT ![i] = PcAfterRaise]
            /\ UNCHANGED event
       ELSE /\ event' = [event EXCEPT ![EventSlot(i)] = r.output_parsed]
            /\ pc' = [pc EXCEPT ![i] = "build"]
            /\ UNCHANGED <<logged, response>>
  /\ UNCHANGED <<program, env, proc, clientKey, rootAsked, rootResponse,
                 text, keyChecked, call, calls, shellVars>>

\* return EventResponse(success=True, event=event), or the except branch
\* when pydantic rejects it
Build(i) ==
  /\ pc[i] = "build"
  /\ LET e == event[EventSlot(i)] IN
       IF EventResponseValid(e)
       THEN /\ response' = [response EXCEPT ![i] = EventResponse(e)]
            /\ UNCHANGED logged
       ELSE /\ logged' = [logged EXCEPT ![i] = Append(logged[i], LogPrefix \o ValidationErrorMsg)]
            /\ response' = [response EXCEPT ![i] = HTTPException(500, FailedPrefix \o ValidationErrorMsg)]
  /\ pc' = [pc EXCEPT ![i] = "done"]
  /\ UNCHANGED <<program, env, proc, clientKey, rootAsked, rootResponse,
                 text, keyChecked, call, calls, reply, event, shellVars>>

\* ------------------------------------------------------- the demo shell
\* what extract_event_info returns once the client exists and the service
\* has answered with r
ExtractResult(r) ==
  IF r.kind = "raise" THEN [error |-> r.desc]
  ELSE IF r.output_parsed = NoneEvent THEN [error |-> AttributeErrorMsg]
  ELSE ModelDump(r.output_parsed)

\* the "Extract Event Info" button: result = extract_event_info(event_text);
\* st.json(result)
Click(t, r) ==
  /\ program = "shell"
  /\ clicks < MaxClicks
  /\ clicks' = clicks + 1
  /\ shText' = t
  /\ shKey' = env
  /\ UNCHANGED shLogged
  /\ IF OpenAIAccepts(env)
       THEN /\ shCall' = [sent |-> TRUE, api_key |-> env, input |-> t]
            /\ shCalls' = 1
            /\ shReply' = r
            /\ shOutcome' = [kind |-> "returned", value |-> ExtractResult(r)]
            /\ shDisplayed' = [kind |-> "json", value |-> ExtractResult(r)]
       ELSE /\ shCall' = NoCall
            /\ shCalls' = 0
            /\ shReply' = NoReply
            /\ shOutcome' = [kind |-> "raised", error |-> OpenAIErrorMsg]
            /\ shDisplayed' = [kind |-> "exception", error |-> OpenAIErrorMsg]
  /\ UNCHANGED <<program, env, httpVars>>

Next ==
  \/ EnvChange
  \/ Startup
  \/ ReadRoot
  \/ \E i \in Req : Receive(i)
  \/ \E i \in Req : CheckKey(i)
  \/ \E i \in Req : CallService(i)
  \/ \E i \in Req, r \in Replies : ServiceReply(i, r)
  \/ \E i \in Req : Build(i)
  \/ \E t \in Texts, r \in Replies : Click(t, r)

Spec == Init /\ [][Next]_vars

\* ------------------------------------------------------------ outcomes
Done(i) == pc[i] = "done"
Clicked == clicks > 0
\* 200 {success: true, event: {name, date, participants}}
HttpSuccess(resp) ==
  /\ resp.status = 200
  /\ DOMAIN resp.body = {"success", "event"}
  /\ resp.body.success = TRUE
  /\ DOMAIN resp.body.event = {"name", "date", "participants"}
\* 500 with a non-empty description
HttpFailure(resp) ==
  /\ resp.status = 500
  /\ \/ "detail" \in DOMAIN resp.body /\ resp.body.detail # ""
     \/ "error" \in DOMAIN resp.body /\ resp.body.error # ""
ShellSuccess(o) == o.kind = "returned" /\ DOMAIN o.value = {"name", "date", "participants"}
ShellFailure(o) == o.kind = "returned" /\ DOMAIN o.value = {"error"} /\ o.value.error # ""
Conforming(r) == r.kind = "response" /\ r.output_parsed \in CalendarEvent
Absent(r) == r.kind = "response" /\ r.output_parsed = NoneEvent

\* C1: every finished invocation of extract_event and of extract_event_info
\* ends in exactly one of success with a three-field CalendarEvent or failure
\* with a non-empty description; no exception escapes the operation.
C1_ExactlyOneOutcome ==
  /\ \A i \in Req : Done(i) => (HttpSuccess(response[i]) # HttpFailure(response[i]))
  /\ Clicked => (ShellSuccess(shOutcome) # ShellFailure(shOutcome))

\* C2: an invocation made with no credential configured (the variable unset
\* or empty, as extract_event tests it) fails with a configuration message and
\* has made no call to the completion service, in the backend and in the
\* demo shell; the shell's uncaught OpenAIError is counted as such a failure.
C2_NoCredentialNoCall ==
  /\ \A i \in Req : (Done(i) /\ KeyNotConfigured(keyChecked[i]))
        => (response[i] = HTTPException(500, KeyMissingDetail) /\ calls[i] = 0)
  /\ (Clicked /\ KeyNotConfigured(shKey))
        => (shCalls = 0 /\ (ShellFailure(shOutcome) \/ shOutcome.kind = "raised"))

\* C3: with a credential configured, a conforming value returned by the
\* service is returned unchanged: 200 {success: true, event: value} from the
\* backend, the value itself from the shell, participants element for element.
C3_ConformingValueReturned ==
  /\ \A i \in Req : (Done(i) /\ ~KeyNotConfigured(keyChecked[i]) /\ Conforming(reply[i]))
        => response[i] = [status |-> 200,
                          body |-> [success |-> TRUE, event |-> reply[i].output_parsed]]
  /\ (Clicked /\ ~KeyNotConfigured(shKey) /\ Conforming(shReply))
        => shOutcome = [kind |-> "returned", value |-> shReply.output_parsed]
\* the backend has answered 200 with an event whose participants repeat a name
C3_Witness ==
  \E i \in Req : /\ Done(i) /\ ~KeyNotConfigured(keyChecked[i]) /\ Conforming(reply[i])
                 /\ response[i].status = 200
                 /\ response[i].body.event.participants = <<"Bob", "Bob">>

\* C4: when the call to the service fails with description D, the backend
\* answers 500 with the body {success: false, error: "Failed to extract event
\* information: D"}.
C4_ErrorBodyShape ==
  \A i \in Req : (Done(i) /\ reply[i].kind = "raise")
     => response[i] = [status |-> 500,
                       body |-> [success |-> FALSE, error |-> FailedPrefix \o reply[i].desc]]

\* C5: every GET / is answered with the static descriptor, whatever the
\* credential was when the process was started.
C5_RootAlwaysDescriptor == rootAsked => rootResponse = ReadRootResponse

C7_FailuresLoggedAndReturned ==
  /\ \A i \in Req : Done(i) => (HttpFailure(response[i]) <=> logged[i] # <<>>)
  /\ (Clicked /\ ~ShellSuccess(shOutcome)) => (ShellFailure(shOutcome) /\ shLogged # <<>>)

\* C8: when the service answers without a parsed value, the invocation fails:
\* 500 from the backend, an error object from the shell, never a success.
C8_AbsentValueFails ==
  /\ \A i \in Req : (Done(i) /\ Absent(reply[i]))
        => (response[i].status = 500 /\ ~HttpSuccess(response[i]) /\ HttpFailure(response[i]))
  /\ (Clicked /\ Absent(shReply)) => ShellFailure(shOutcome)
\* a backend request was answered after a reply without a parsed value
C8_Witness ==
  \E i \in Req : Done(i) /\ calls[i] = 1 /\ Absent(reply[i]) /\ response[i].status = 500

\* the response extract_event gives a request that runs alone
Alone(k, r) ==
  IF KeyNotConfigured(k) THEN [status |-> 500, body |-> [detail |-> KeyMissingDetail]]
  ELSE IF r.kind = "raise" THEN [status |-> 500, body |-> [detail |-> FailedPrefix \o r.desc]]
  ELSE IF r.output_parsed \in CalendarEvent
       THEN [status |-> 200, body |-> [success |-> TRUE, event |-> r.output_parsed]]
  ELSE [status |-> 500, body |-> [detail |-> FailedPrefix \o ValidationErrorMsg]]

\* C9: under every interleaving of concurrent POST requests, a request's
\* response is the one it would get alone from its own text, the credential it
\* checked and the service's reply to its own call.
C9_RequestsIndependent ==
  \A i \in Req :
     /\ call[i].sent => call[i].input = text[i]
     /\ Done(i) => response[i] = Alone(keyChecked[i], reply[i])
\* request 1 was answered with its own event while request 2 holds another
C9_Witness ==
  /\ MaxRequests >= 2
  /\ Done(1) /\ Conforming(reply[1]) /\ response[1].status = 200
  /\ pc[2] = "build" /\ reply[2].kind = "response"
  /\ reply[2].output_parsed # reply[1].output_parsed

\* C10: the credential check of a request and the credential its call
\* carries agree with each other and with the value read at import.
C10_ReadOnce ==
  \A i \in Req : call[i].sent => (keyChecked[i] = call[i].api_key /\ call[i].api_key = clientKey)
\* C10 as amended: every call of the backend carries the credential read at
\* import, and passed a check of the environment as it was at request time;
\* a call of the shell carries the value read in that invocation.
C10_CallCarriesImportKey ==
  /\ \A i \in Req : call[i].sent => (call[i].api_key = clientKey /\ ~KeyNotConfigured(keyChecked[i]))
  /\ shCall.sent => shCall.api_key = shKey
\* the variable changed after import: the call carries the import value
C10_Witness ==
  \E i \in Req : call[i].sent /\ call[i].api_key = clientKey /\ keyChecked[i] # clientKey

====
